---------------------------- MODULE Spec2Model ----------------------------
(***************************************************************************)
(* Model of project/ingest/run.py: the batch pipeline that reads the sales *)
(* drops, coerces and validates the rows, deduplicates them, persists them *)
(* (quarantine CSV, Parquet, SQLite) and renders reporte.md from the       *)
(* re-read Parquet file.                                                   *)
(*                                                                         *)
(* Texts are sequences of one-character strings, so that parsing and       *)
(* formatting are computed and not assumed.  Numbers are fixed-point:      *)
(* unidades and precio_unitario in hundredths, importe in ten-thousandths. *)
(* The texts the model feeds to the parsers have at most two fractional    *)
(* digits.                                                                 *)
(***************************************************************************)
EXTENDS Integers, Sequences, FiniteSets, TLC

\* ---------------------------------------------------------------- bounds
MaxRuns == 2
MaxClock == 2
MaxFrameRows == 2
MaxProducts == 4
MaxImporte == 5

\* ------------------------------------------------------------------ state
VARIABLES
    tie,          \* how this build's default sort leaves equal keys
    clock,        \* the wall clock, as datetime.now() last read it
    runs,         \* runs of run.py started so far
    parquet,      \* output/parquet/clean_ventas.parquet
    quality_csv,  \* output/quality/ventas_invalidas.csv
    reporte_md,   \* output/reporte.md
    raw_ventas,   \* ut1.db, table raw_ventas (committed)
    clean_ventas, \* ut1.db, table clean_ventas (committed)
    rendered,     \* every report written so far, with the store it was read from
    pc,           \* the position of the current run in run.py
    DATA,         \* the drops directory of the current run
    raw,          \* line 15: the frames read so far
    raw_df, df, quarantine, clean,
    con,          \* the sqlite3 connection: open?, and its view of clean_ventas
    k,            \* the upsert loop: rows of clean done
    err,          \* the statement that raised, when the run aborted
    wrote         \* the files this run has written

\* ------------------------------------------------------------- text, values
Digits == {"0", "1", "2", "3", "4", "5", "6", "7", "8", "9"}

DigitVal(c) ==
    CASE c = "0" -> 0 [] c = "1" -> 1 [] c = "2" -> 2 [] c = "3" -> 3
      [] c = "4" -> 4 [] c = "5" -> 5 [] c = "6" -> 6 [] c = "7" -> 7
      [] c = "8" -> 8 [] c = "9" -> 9 [] OTHER -> 0

DigitChar(n) ==
    CASE n = 0 -> "0" [] n = 1 -> "1" [] n = 2 -> "2" [] n = 3 -> "3"
      [] n = 4 -> "4" [] n = 5 -> "5" [] n = 6 -> "6" [] n = 7 -> "7"
      [] n = 8 -> "8" [] OTHER -> "9"

\* A missing cell (pandas NaN / None) in a text column.
NaN == <<"NaN">>

\* A missing number or date (NaN, None, NaT).
NA == [ok |-> FALSE, v |-> 0]

Val(n) == [ok |-> TRUE, v |-> n]

RECURSIVE ToNat(_)
ToNat(ds) ==
    IF ds = <<>> THEN 0
    ELSE ToNat(SubSeq(ds, 1, Len(ds) - 1)) * 10 + DigitVal(ds[Len(ds)])

AllDigits(s) == \A i \in 1..Len(s) : s[i] \in Digits

\* float(text) on a decimal literal: [sign] digits [. digits], at least one
\* digit; the value in hundredths.  Anything else raises ValueError (NA).
ParseFloat(s) ==
    LET neg  == s # <<>> /\ Head(s) = "-"
        body == IF s # <<>> /\ Head(s) \in {"-", "+"} THEN Tail(s) ELSE s
        dots == {i \in 1..Len(body) : body[i] = "."}
        dot  == IF dots = {} THEN Len(body) + 1 ELSE CHOOSE i \in dots : TRUE
        int  == SubSeq(body, 1, dot - 1)
        frac == SubSeq(body, dot + 1, Len(body))
        f2   == SubSeq(frac \o <<"0", "0">>, 1, 2)
        mag  == ToNat(int) * 100 + ToNat(f2)
    IN  IF /\ s # NaN
           /\ Cardinality(dots) <= 1
           /\ AllDigits(int) /\ AllDigits(frac)
           /\ Len(int) + Len(frac) >= 1
        THEN Val(IF neg THEN 0 - mag ELSE mag)
        ELSE NA

\* str(x).replace(",", ".")
ReplaceComma(s) == [i \in 1..Len(s) |-> IF s[i] = "," THEN "." ELSE s[i]]

to_float_money(x) == ParseFloat(ReplaceComma(x))

\* pd.to_numeric(..., errors="coerce") on one cell
to_numeric(x) == ParseFloat(x)

DaysIn(y, m) ==
    IF m \in {4, 6, 9, 11} THEN 30
    ELSE IF m = 2
         THEN (IF y % 4 = 0 /\ (y % 100 # 0 \/ y % 400 = 0) THEN 29 ELSE 28)
         ELSE 31

\* pd.to_datetime(..., errors="coerce").dt.date on one cell holding an ISO
\* date YYYY-MM-DD; the date as the number yyyymmdd.  Other texts: NaT.
to_datetime(s) ==
    IF /\ s # NaN
       /\ Len(s) = 10
       /\ s[5] = "-" /\ s[8] = "-"
       /\ AllDigits(SubSeq(s, 1, 4)) /\ AllDigits(SubSeq(s, 6, 7))
       /\ AllDigits(SubSeq(s, 9, 10))
    THEN LET y == ToNat(SubSeq(s, 1, 4))
             m == ToNat(SubSeq(s, 6, 7))
             d == ToNat(SubSeq(s, 9, 10))
         IN  IF y >= 1 /\ m \in 1..12 /\ d \in 1..DaysIn(y, m)
             THEN Val(y * 10000 + m * 100 + d)
             ELSE NA
    ELSE NA

Pad(n, w) == [i \in 1..w |-> DigitChar((n \div (10 ^ (w - i))) % 10)]

\* str(datetime.date): YYYY-MM-DD
DateStr(d) ==
    Pad(d \div 10000, 4) \o <<"-">> \o Pad((d \div 100) % 100, 2)
        \o <<"-">> \o Pad(d % 100, 2)


\* --------------------------------------------------- library sort (pandas)
\* The characters the model's texts use, in code-point order.
Alphabet ==
    <<",", "-", ".", "0", "1", "2", "3", "4", "5", "6", "7", "8", "9",
      "C", "P", "_", "a", "b", "c", "d", "e", "f", "g", "h", "i", "j", "k",
      "l", "m", "n", "o", "p", "q", "r", "s", "t", "u", "v", "w", "x", "y",
      "z">>

Ord(c) == CHOOSE i \in 1..Len(Alphabet) : Alphabet[i] = c

RECURSIVE TextLess(_, _)
TextLess(a, b) ==
    IF b = <<>> THEN FALSE
    ELSE IF a = <<>> THEN TRUE
    ELSE IF Ord(Head(a)) # Ord(Head(b)) THEN Ord(Head(a)) < Ord(Head(b))
    ELSE TextLess(Tail(a), Tail(b))

\* The two ways a sort may leave rows with equal keys.  sort_values is called
\* with its default kind ("quicksort"), for which pandas promises no order
\* among equal keys; which one it is is fixed by the library build.
TieOrders == {"arrival", "reversed"}

TieBefore(i, j, order) == IF order = "arrival" THEN i < j ELSE i > j

\* s reordered: element i goes before element j iff before[i, j] (a strict
\* total order on the positions of s).
Reorder(s, before) ==
    LET n == Len(s)
        pos(i) == 1 + Cardinality({j \in 1..n : before[j, i]})
    IN  [p \in 1..n |-> s[CHOOSE i \in 1..n : pos(i) = p]]

\* DataFrame.sort_values("_ingest_ts")
SortByIngestTs(rows, order) ==
    Reorder(rows, [i \in 1..Len(rows), j \in 1..Len(rows) |->
        \/ rows[i].ingest_ts < rows[j].ingest_ts
        \/ rows[i].ingest_ts = rows[j].ingest_ts /\ TieBefore(i, j, order)])

\* DataFrame.sort_values("importe", ascending=False)
SortByImporteDesc(rows, order) ==
    Reorder(rows, [i \in 1..Len(rows), j \in 1..Len(rows) |->
        \/ rows[i].importe > rows[j].importe
        \/ rows[i].importe = rows[j].importe /\ TieBefore(i, j, order)])

\* ------------------------------------------------ 2) Limpieza (run.py 31-61)
Key(r) == <<r.fecha, r.id_cliente, r.id_producto>>

\* Lines 43-45: the three coerced columns of one row.
Coerce(r) ==
    [r EXCEPT !.fecha = to_datetime(@),
              !.unidades = to_numeric(@),
              !.precio_unitario = to_float_money(@)]

CoerceAll(frame) == [i \in 1..Len(frame) |-> Coerce(frame[i])]

\* valid with the quantity test written > 0.
validPositive(r) ==
    /\ r.fecha.ok
    /\ r.unidades.ok /\ r.unidades.v > 0
    /\ r.precio_unitario.ok /\ r.precio_unitario.v >= 0
    /\ r.id_cliente # NaN /\ r.id_cliente # <<>>
    /\ r.id_producto # NaN /\ r.id_producto # <<>>

\* Lines 47-53: the validity mask of one coerced row.
valid(r) ==
    /\ r.fecha.ok
    /\ r.unidades.ok /\ r.unidades.v >= 0
    /\ r.precio_unitario.ok /\ r.precio_unitario.v >= 0
    /\ r.id_cliente # NaN /\ r.id_cliente # <<>>
    /\ r.id_producto # NaN /\ r.id_producto # <<>>

\* Line 55: df.loc[~valid]
Quarantine(frame) == SelectSeq(frame, LAMBDA r : ~valid(r))

\* ValidRows with the mask applied to the numeric columns only.
ValidRowsNumeric(frame) ==
    SelectSeq(frame, LAMBDA r : r.unidades.ok /\ r.unidades.v >= 0
                             /\ r.precio_unitario.ok
                             /\ r.precio_unitario.v >= 0)

\* Line 56: df.loc[valid]
ValidRows(frame) == SelectSeq(frame, valid)

\* drop_duplicates(subset=[fecha, id_cliente, id_producto], keep="last")
DropDuplicatesLast(rows) ==
    LET keep(i) == \A j \in (i + 1)..Len(rows) : Key(rows[j]) # Key(rows[i])
        idxs == {i \in 1..Len(rows) : keep(i)}
        nth(p) == CHOOSE i \in idxs : Cardinality({j \in idxs : j < i}) = p - 1
    IN  [p \in 1..Cardinality(idxs) |-> rows[nth(p)]]

\* Line 61: importe = unidades * precio_unitario (ten-thousandths)
WithImporte(r) ==
    [idx |-> r.idx, fecha |-> r.fecha, id_cliente |-> r.id_cliente,
     id_producto |-> r.id_producto, unidades |-> r.unidades,
     precio_unitario |-> r.precio_unitario, source_file |-> r.source_file,
     ingest_ts |-> r.ingest_ts,
     importe |-> r.unidades.v * r.precio_unitario.v]

\* Lines 56-61: the clean set.
Clean(frame, order) ==
    LET kept == DropDuplicatesLast(SortByIngestTs(ValidRows(frame), order))
    IN  [i \in 1..Len(kept) |-> WithImporte(kept[i])]

\* to_csv / to_parquet with index=False: the rows without the frame's index.
ToFile(rows) == [i \in 1..Len(rows) |-> [rows[i] EXCEPT !.idx = 0]]

\* ------------------------------------------------ 4) Reporte (run.py 99-150)
RECURSIVE SumImporte(_)
SumImporte(rows) ==
    IF rows = <<>> THEN 0 ELSE Head(rows).importe + SumImporte(Tail(rows))

\* round(a / b), a >= 0, b > 0, halves to the even neighbour (numpy, and the
\* .2f format of a tie that is exact in binary).
RoundDiv(a, b) ==
    LET q == a \div b
        r == a % b
    IN  IF 2 * r < b THEN q
        ELSE IF 2 * r > b THEN q + 1
        ELSE IF q % 2 = 0 THEN q ELSE q + 1

RECURSIVE SortedTexts(_)
SortedTexts(S) ==
    IF S = {} THEN <<>>
    ELSE LET x == CHOOSE a \in S : \A b \in S \ {a} : TextLess(a, b)
         IN  <<x>> \o SortedTexts(S \ {x})

RECURSIVE SortedInts(_)
SortedInts(S) ==
    IF S = {} THEN <<>>
    ELSE LET x == CHOOSE a \in S : \A b \in S : a <= b
         IN  <<x>> \o SortedInts(S \ {x})

\* Lines 110-112: groupby("id_producto").agg(importe sum), sorted descending.
TopProductos(clean_rep, order) ==
    LET ids == SortedTexts({clean_rep[i].id_producto : i \in 1..Len(clean_rep)})
        grp == [g \in 1..Len(ids) |->
                  [id_producto |-> ids[g],
                   importe |-> SumImporte(SelectSeq(clean_rep,
                                  LAMBDA r : r.id_producto = ids[g]))]]
    IN  SortByImporteDesc(grp, order)

\* Line 113: top["importe"].sum() or 1.0
TotalImp(top) == IF SumImporte(top) = 0 THEN 1 ELSE SumImporte(top)

\* Pct truncating instead of rounding.
PctFloor(importe, total_imp) == (100 * importe) \div total_imp

\* Line 114: (100 * importe / total_imp).round(0)
Pct(importe, total_imp) == RoundDiv(100 * importe, total_imp)

WithPct(top) ==
    [i \in 1..Len(top) |->
        [id_producto |-> top[i].id_producto, importe |-> top[i].importe,
         pct |-> Pct(top[i].importe, TotalImp(top))]]

\* Lines 116-118: groupby("fecha").agg(sum, count)
ByDay(clean_rep) ==
    LET days == SortedInts({clean_rep[i].fecha.v : i \in 1..Len(clean_rep)})
    IN  [g \in 1..Len(days) |->
           LET rows == SelectSeq(clean_rep, LAMBDA r : r.fecha.v = days[g])
           IN  [fecha |-> days[g], importe_total |-> SumImporte(rows),
                transacciones |-> Len(rows)]]

\* The em dash of lines 121 and 126.
Raya == <<"_">>

\* Report with the period taken from the in-memory frame df, not from the
\* re-read store.
ReportPeriodoDf(clean_rep, generado, bronce, plata, cuarentena, order) ==
    LET vacio == clean_rep = <<>>
        ingresos == IF vacio THEN 0 ELSE SumImporte(clean_rep)
        trans == IF vacio THEN 0 ELSE Len(clean_rep)
        top == IF vacio THEN <<>> ELSE WithPct(TopProductos(clean_rep, order))
        by_day == IF vacio THEN <<>> ELSE ByDay(clean_rep)
        dias == SortedInts({df[i].fecha.v : i \in 1..Len(df)})
    IN  [periodo_ini |-> IF dias = <<>> THEN Raya ELSE DateStr(dias[1]),
         periodo_fin |-> IF dias = <<>> THEN Raya ELSE DateStr(dias[Len(dias)]),
         generado |-> generado,
         ingresos |-> RoundDiv(ingresos, 100),
         producto_lider |-> IF top = <<>> THEN Raya ELSE top[1].id_producto,
         ticket |-> IF trans > 0 THEN RoundDiv(ingresos, 100 * trans) ELSE 0,
         trans |-> trans,
         top |-> [sin_datos |-> top = <<>>, filas |-> top],
         by_day |-> [sin_datos |-> by_day = <<>>, filas |-> by_day],
         bronce |-> bronce, plata |-> plata, cuarentena |-> cuarentena]

\* Lines 105-150: the text of reporte.md, field by field.  Amounts with two
\* decimals (hundredths), as the .2f formats print them.
Report(clean_rep, generado, bronce, plata, cuarentena, order) ==
    LET vacio == clean_rep = <<>>
        ingresos == IF vacio THEN 0 ELSE SumImporte(clean_rep)
        trans == IF vacio THEN 0 ELSE Len(clean_rep)
        top == IF vacio THEN <<>> ELSE WithPct(TopProductos(clean_rep, order))
        by_day == IF vacio THEN <<>> ELSE ByDay(clean_rep)
    IN  [periodo_ini |-> IF vacio THEN Raya ELSE DateStr(by_day[1].fecha),
         periodo_fin |-> IF vacio THEN Raya
                         ELSE DateStr(by_day[Len(by_day)].fecha),
         generado |-> generado,
         ingresos |-> RoundDiv(ingresos, 100),
         producto_lider |-> IF top = <<>> THEN Raya ELSE top[1].id_producto,
         ticket |-> IF trans > 0 THEN RoundDiv(ingresos, 100 * trans) ELSE 0,
         trans |-> trans,
         top |-> [sin_datos |-> top = <<>>, filas |-> top],
         by_day |-> [sin_datos |-> by_day = <<>>, filas |-> by_day],
         bronce |-> bronce, plata |-> plata, cuarentena |-> cuarentena]

\* ------------------------------------------------------------ input files
\* A file of the drops directory is [name, rows]; a row holds the five cells
\* as pandas reads them with dtype=str (an empty CSV cell is NaN).
Ejemplo1 ==
    [fecha |-> <<"2", "0", "2", "5", "-", "0", "1", "-", "0", "3">>, id_cliente |-> <<"C", "0", "0", "1">>,
     id_producto |-> <<"P", "1", "0">>, unidades |-> <<"2">>,
     precio_unitario |-> <<"1", "2", ".", "5", "0">>]

Ejemplo2 ==
    [fecha |-> <<"2", "0", "2", "5", "-", "0", "1", "-", "0", "4">>, id_cliente |-> <<"C", "0", "0", "2">>,
     id_producto |-> <<"P", "1", "0">>, unidades |-> <<"1">>,
     precio_unitario |-> <<"1", "2", ".", "5", "0">>]

Ejemplo3 ==
    [fecha |-> <<"2", "0", "2", "5", "-", "0", "1", "-", "0", "4">>, id_cliente |-> <<"C", "0", "0", "1">>,
     id_producto |-> <<"P", "2", "0">>, unidades |-> <<"3">>,
     precio_unitario |-> <<"8", ".", "0", "0">>]

Ejemplo4 ==
    [fecha |-> <<"2", "0", "2", "5", "-", "0", "1", "-", "0", "5">>, id_cliente |-> <<"C", "0", "0", "3">>,
     id_producto |-> <<"P", "2", "0">>, unidades |-> <<"1">>,
     precio_unitario |-> <<"8", ".", "0", "0">>]

Ejemplo5 ==
    [fecha |-> <<"2", "0", "2", "5", "-", "0", "1", "-", "0", "5">>, id_cliente |-> <<"C", "0", "0", "3">>,
     id_producto |-> <<"P", "2", "0">>, unidades |-> <<"-", "1">>,
     precio_unitario |-> <<"8", ".", "0", "0">>]

Ejemplo6 ==
    [fecha |-> <<"2", "0", "2", "5", "-", "0", "1", "-", "0", "6">>, id_cliente |-> <<"C", "0", "0", "4">>,
     id_producto |-> <<"P", "9", "9">>, unidades |-> <<"2">>,
     precio_unitario |-> <<"d", "o", "c", "e">>]

\* The same sale as Ejemplo4, resent with corrected values.
Ejemplo4Bis ==
    [fecha |-> <<"2", "0", "2", "5", "-", "0", "1", "-", "0", "5">>, id_cliente |-> <<"C", "0", "0", "3">>,
     id_producto |-> <<"P", "2", "0">>, unidades |-> <<"2">>,
     precio_unitario |-> <<"8", ",", "5", "0">>]

\* get_data.py, lines 5-13.
ventas_ejemplo ==
    [name |-> <<"v", "e", "n", "t", "a", "s", "_", "e", "j", "e", "m", "p", "l", "o", ".", "c", "s", "v">>,
     rows |-> <<Ejemplo1, Ejemplo2, Ejemplo3, Ejemplo4, Ejemplo5, Ejemplo6>>]

FileA(rows) == [name |-> <<"a", ".", "c", "s", "v">>, rows |-> rows]

FileB(rows) == [name |-> <<"b", ".", "c", "s", "v">>, rows |-> rows]

FileN(rows) == [name |-> <<"c", ".", "n", "d", "j", "s", "o", "n">>, rows |-> rows]

\* The contents of data/drops the runs are given.
Drops ==
    { {},
      {ventas_ejemplo},
      {FileA(<<Ejemplo4, Ejemplo4Bis>>)},
      {FileB(<<Ejemplo4Bis>>), FileA(<<Ejemplo4>>)},
      {FileA(<<Ejemplo5>>)},
      {FileN(<<Ejemplo6>>)},
      {FileN(<<Ejemplo3>>), FileB(<<Ejemplo4>>)} }

Suffix(name, n) == SubSeq(name, Len(name) - n + 1, Len(name))

IsCsv(name) == Len(name) >= 4 /\ Suffix(name, 4) = <<".", "c", "s", "v">>

RECURSIVE SortedByName(_)
SortedByName(S) ==
    IF S = {} THEN <<>>
    ELSE LET x == CHOOSE a \in S : \A b \in S \ {a} : TextLess(a.name, b.name)
         IN  <<x>> \o SortedByName(S \ {x})

\* Line 14: sorted(*.csv) + sorted(*.ndjson) + sorted(*.jsonl)
Glob(dir) ==
    SortedByName({x \in dir : IsCsv(x.name)})
        \o SortedByName({x \in dir : ~IsCsv(x.name)})

\* Lines 17-22: one file's frame, stamped with its name and the time of the
\* read.
ReadFile(file, now) ==
    [i \in 1..Len(file.rows) |->
        [idx |-> 0, fecha |-> file.rows[i].fecha,
         id_cliente |-> file.rows[i].id_cliente,
         id_producto |-> file.rows[i].id_producto,
         unidades |-> file.rows[i].unidades,
         precio_unitario |-> file.rows[i].precio_unitario,
         source_file |-> file.name, ingest_ts |-> now]]

RECURSIVE Flatten(_)
Flatten(frames) ==
    IF frames = <<>> THEN <<>> ELSE Head(frames) \o Flatten(Tail(frames))

\* Lines 25-29: pd.concat(raw, ignore_index=True), or the empty frame.
Concat(frames) ==
    LET all == Flatten(frames)
    IN  [i \in 1..Len(all) |-> [all[i] EXCEPT !.idx = i - 1]]

\* ------------------------------------------- 3) Persistencia (run.py 63-97)
\* Lines 76-77: the rows appended to raw_ventas.
RawRows(frame) ==
    [i \in 1..Len(frame) |->
        [fecha |-> frame[i].fecha, id_cliente |-> frame[i].id_cliente,
         id_producto |-> frame[i].id_producto, unidades |-> frame[i].unidades,
         precio_unitario |-> frame[i].precio_unitario,
         ingest_ts |-> frame[i].ingest_ts, source_file |-> frame[i].source_file,
         batch_id |-> "demo"]]

\* UpsertParams with u and p bound to each other's column.
UpsertParamsSwapped(r) ==
    [fecha |-> DateStr(r.fecha.v), idc |-> r.id_cliente,
     idp |-> r.id_producto, u |-> r.precio_unitario.v, p |-> r.unidades.v,
     ts |-> r.ingest_ts]

\* Lines 85-92: the named parameters bound to the upsert statement.
UpsertParams(r) ==
    [fecha |-> DateStr(r.fecha.v), idc |-> r.id_cliente,
     idp |-> r.id_producto, u |-> r.unidades.v, p |-> r.precio_unitario.v,
     ts |-> r.ingest_ts]

\* sql/10_upserts.sql: insert-or-replace on (fecha, id_cliente, id_producto).
UpsertSql(table, q) ==
    {x \in table : ~(x.fecha = q.fecha /\ x.id_cliente = q.idc
                        /\ x.id_producto = q.idp)}
        \cup {[fecha |-> q.fecha, id_cliente |-> q.idc, id_producto |-> q.idp,
               unidades |-> q.u, precio_unitario |-> q.p, ingest_ts |-> q.ts]}

\* ------------------------------------------------------------ the runs
vars ==
    <<tie, clock, runs, parquet, quality_csv, reporte_md, raw_ventas,
      clean_ventas, rendered, pc, DATA, raw, raw_df, df, quarantine, clean,
      con, k, err, wrote>>

disk == <<parquet, quality_csv, reporte_md, raw_ventas, clean_ventas, rendered>>

memory == <<raw_df, df, quarantine, clean>>

NoFile == [exists |-> FALSE, rows |-> <<>>]

NoReport == [exists |-> FALSE, text |-> [generado |-> 0]]

Closed == [open |-> FALSE, tx |-> {}]

\* datetime.now(timezone.utc): the clock does not go back; it may not have
\* advanced since the last read.
Now == {t \in {clock, clock + 1} : t <= MaxClock}

\* Before the first run: an empty output directory, no database.
Init ==
    /\ tie \in TieOrders
    /\ clock = 0 /\ runs = 0
    /\ parquet = NoFile /\ quality_csv = NoFile /\ reporte_md = NoReport
    /\ raw_ventas = <<>> /\ clean_ventas = {} /\ rendered = <<>>
    /\ pc = "idle" /\ DATA = {} /\ raw = <<>>
    /\ raw_df = <<>> /\ df = <<>> /\ quarantine = <<>> /\ clean = <<>>
    /\ con = Closed /\ k = 0 /\ err = "" /\ wrote = {}

\* python run.py, on some content of data/drops.
StartRun ==
    /\ pc \in {"idle", "done", "aborted"}
    /\ runs < MaxRuns
    /\ runs' = runs + 1
    /\ DATA' \in Drops
    /\ pc' = "ingesta"
    /\ raw' = <<>> /\ raw_df' = <<>> /\ df' = <<>>
    /\ quarantine' = <<>> /\ clean' = <<>>
    /\ con' = Closed /\ k' = 0 /\ err' = "" /\ wrote' = {}
    /\ UNCHANGED <<tie, clock, disk>>

\* Lines 16-23: one turn of the loop over the files.
Ingesta ==
    /\ pc = "ingesta"
    /\ Len(raw) < Len(Glob(DATA))
    /\ \E now \in Now :
          /\ clock' = now
          /\ raw' = Append(raw, ReadFile(Glob(DATA)[Len(raw) + 1], now))
    /\ UNCHANGED <<tie, runs, disk, pc, DATA, memory, con, k, err, wrote>>

\* Lines 25-56: concat, coercion, the validity mask and the two sets.
Validar ==
    /\ pc = "ingesta"
    /\ Len(raw) = Len(Glob(DATA))
    /\ raw_df' = Concat(raw)
    /\ df' = CoerceAll(raw_df')
    /\ quarantine' = Quarantine(df')
    /\ clean' = ValidRows(df')
    /\ pc' = "dedupe"
    /\ UNCHANGED <<tie, clock, runs, disk, DATA, raw, con, k, err, wrote>>

\* Lines 58-61: keep the last row of each key, add importe.
Dedupe ==
    /\ pc = "dedupe"
    /\ clean' = Clean(df, tie)
    /\ pc' = "persist"
    /\ UNCHANGED <<tie, clock, runs, disk, DATA, raw, raw_df, df, quarantine,
                   con, k, err, wrote>>

\* Lines 64-67: the quarantine CSV always, the Parquet file when clean has
\* rows.
PersistFiles ==
    /\ pc = "persist"
    /\ quality_csv' = [exists |-> TRUE, rows |-> ToFile(quarantine)]
    /\ parquet' = IF clean # <<>>
                  THEN [exists |-> TRUE, rows |-> ToFile(clean)]
                  ELSE parquet
    /\ wrote' = wrote \cup {"quality"}
                  \cup (IF clean # <<>> THEN {"parquet"} ELSE {})
    /\ pc' = "schema"
    /\ UNCHANGED <<tie, clock, runs, reporte_md, raw_ventas, clean_ventas,
                   rendered, DATA, raw, memory, con, k, err>>

\* Raise with the exception swallowed: the run goes on to the report.
RaiseSwallowed(stmt) ==
    /\ pc' = "reporte"
    /\ err' = stmt

\* An uncaught exception: the script ends there (con.close() is not reached).
Raise(stmt) ==
    /\ pc' = "aborted"
    /\ err' = stmt

\* Lines 71-73: connect, then the schema script.
Schema ==
    /\ pc = "schema"
    /\ con' = [open |-> TRUE, tx |-> clean_ventas]
    /\ \/ pc' = "raw" /\ err' = err
       \/ Raise("schema")
    /\ UNCHANGED <<tie, clock, runs, disk, DATA, raw, memory, k, wrote>>

\* Lines 75-78: df_raw.to_sql(..., if_exists="append"), committed by pandas.
RawAppend ==
    /\ pc = "raw"
    /\ \/ /\ raw_ventas' = IF df # <<>> THEN raw_ventas \o RawRows(df)
                           ELSE raw_ventas
          /\ pc' = "upsert" /\ err' = err
       \/ /\ df # <<>>
          /\ Raise("raw")
          /\ UNCHANGED raw_ventas
    /\ k' = 0
    /\ UNCHANGED <<tie, clock, runs, parquet, quality_csv, reporte_md,
                   clean_ventas, rendered, DATA, raw, memory, con, wrote>>

\* Lines 82-93: one turn of the loop over clean.
Upsert ==
    /\ pc = "upsert"
    /\ k < Len(clean)
    /\ \/ /\ con' = [con EXCEPT !.tx = UpsertSql(@, UpsertParams(clean[k + 1]))]
          /\ k' = k + 1
          /\ UNCHANGED <<pc, err>>
       \/ /\ Raise("upsert")
          /\ UNCHANGED <<con, k>>
    /\ UNCHANGED <<tie, clock, runs, disk, DATA, raw, memory, wrote>>

\* Line 94: con.commit(), inside "if not clean.empty".
Commit ==
    /\ pc = "upsert"
    /\ k = Len(clean)
    /\ \/ /\ clean_ventas' = con.tx
          /\ pc' = "views" /\ err' = err
       \/ /\ clean # <<>>
          /\ Raise("commit")
          /\ UNCHANGED clean_ventas
    /\ UNCHANGED <<tie, clock, runs, parquet, quality_csv, reporte_md,
                   raw_ventas, rendered, DATA, raw, memory, con, k, wrote>>

\* Lines 96-97: the views script, then con.close().
Views ==
    /\ pc = "views"
    /\ \/ /\ con' = Closed
          /\ pc' = "reporte" /\ err' = err
       \/ /\ Raise("views")
          /\ UNCHANGED con
    /\ UNCHANGED <<tie, clock, runs, disk, DATA, raw, memory, k, wrote>>

\* Lines 100-103: the Parquet file re-read, or an empty frame.
CleanRep == IF parquet.exists THEN parquet.rows ELSE <<>>

\* Lines 105-152: compute and write the report.
Reporte ==
    /\ pc = "reporte"
    /\ \E now \in Now :
          /\ clock' = now
          /\ reporte_md' =
                [exists |-> TRUE,
                 text |-> Report(CleanRep, now, Len(df), Len(clean),
                                 Len(quarantine), tie)]
    /\ rendered' = Append(rendered,
                           [store |-> CleanRep, text |-> reporte_md'.text])
    /\ wrote' = wrote \cup {"reporte"}
    /\ pc' = "done"
    /\ UNCHANGED <<tie, runs, parquet, quality_csv, raw_ventas, clean_ventas,
                   DATA, raw, memory, con, k, err>>

Next ==
    \/ StartRun
    \/ Ingesta
    \/ Validar
    \/ Dedupe
    \/ PersistFiles
    \/ Schema
    \/ RawAppend
    \/ Upsert
    \/ Commit
    \/ Views
    \/ Reporte

Spec == Init /\ [][Next]_vars

\* ------------------------------------------- one file's rows, enumerated
FechaTexts == {<<"2", "0", "2", "5", "-", "0", "1", "-", "0", "5">>, <<"2", "0", "2", "5", "-", "0", "2", "-", "3", "0">>, <<"a", "y", "e", "r">>, NaN}

ClienteTexts == {<<"C", "0", "0", "3">>, <<>>, NaN}

ProductoTexts == {<<"P", "2", "0">>, <<"P", "9", "9">>, <<>>, NaN}

UnidadesTexts ==
    {<<"1">>, <<"0">>, <<"-", "1">>, <<"1", ",", "5">>, <<"1", ".", "5">>, NaN}

PrecioTexts ==
    {<<"8", ".", "0", "0">>, <<"8", ",", "5", "0">>, <<"d", "o", "c", "e">>, <<"-", "8">>, <<"0">>, NaN}

\* The rows that differ from the valid sample row Ejemplo4 in at most one
\* cell, and the two invalid sample rows.
RowPool ==
    {r \in [fecha : FechaTexts, id_cliente : ClienteTexts,
            id_producto : ProductoTexts, unidades : UnidadesTexts,
            precio_unitario : PrecioTexts] :
        Cardinality({c \in {"fecha", "id_cliente", "id_producto", "unidades",
                            "precio_unitario"} : r[c] # Ejemplo4[c]}) <= 1}
        \cup {Ejemplo5, Ejemplo6}

Frames(pool, n) == UNION {[1..m -> pool] : m \in 0..n}

\* The state after run.py has read the only file of the drops directory.
AfterRead(file) ==
    /\ clock = 0 /\ runs = 1
    /\ parquet = NoFile /\ quality_csv = NoFile /\ reporte_md = NoReport
    /\ raw_ventas = <<>> /\ clean_ventas = {} /\ rendered = <<>>
    /\ pc = "ingesta" /\ DATA = {file} /\ raw = <<ReadFile(file, 0)>>
    /\ raw_df = <<>> /\ df = <<>> /\ quarantine = <<>> /\ clean = <<>>
    /\ con = Closed /\ k = 0 /\ err = "" /\ wrote = {}

InitLimpieza ==
    /\ tie \in TieOrders
    /\ \E rows \in Frames(RowPool, MaxFrameRows) : AfterRead(FileA(rows))

NextLimpieza == Validar \/ Dedupe \/ PersistFiles

\* One run up to the files it writes, on every frame of RowPool rows.
SpecLimpieza == InitLimpieza /\ [][NextLimpieza]_vars

\* One row per product, with unidades v and precio_unitario 1.
PctRow(i, v) ==
    [fecha |-> Ejemplo4.fecha, id_cliente |-> Ejemplo4.id_cliente,
     id_producto |-> <<"P", DigitChar(i)>>, unidades |-> <<DigitChar(v)>>,
     precio_unitario |-> <<"1">>]

PctFrames ==
    UNION {{[i \in 1..n |-> PctRow(i, v[i])] : v \in [1..n -> 0..MaxImporte]} :
              n \in 0..MaxProducts}

RECURSIVE UpsertAll(_, _)
UpsertAll(table, rows) ==
    IF rows = <<>> THEN table
    ELSE UpsertAll(UpsertSql(table, UpsertParams(Head(rows))), Tail(rows))

\* The state of a first run on the only file of the drops directory, when
\* every statement of the persistence succeeded and the report is next.
AtReporte(file) ==
    /\ clock = 0 /\ runs = 1
    /\ pc = "reporte" /\ DATA = {file} /\ raw = <<ReadFile(file, 0)>>
    /\ raw_df = Concat(raw)
    /\ df = CoerceAll(raw_df)
    /\ quarantine = Quarantine(df)
    /\ clean = Clean(df, tie)
    /\ quality_csv = [exists |-> TRUE, rows |-> ToFile(quarantine)]
    /\ parquet = IF clean # <<>> THEN [exists |-> TRUE, rows |-> ToFile(clean)]
                 ELSE NoFile
    /\ reporte_md = NoReport /\ rendered = <<>>
    /\ raw_ventas = RawRows(df)
    /\ clean_ventas = UpsertAll({}, clean)
    /\ con = Closed /\ k = Len(clean) /\ err = ""
    /\ wrote = {"quality"} \cup (IF clean # <<>> THEN {"parquet"} ELSE {})

InitReporte ==
    /\ tie \in TieOrders
    /\ \E rows \in PctFrames : AtReporte(FileA(rows))

NextReporte == Reporte

\* The report of a first run, on every frame of PctFrames.
SpecReporte == InitReporte /\ [][NextReporte]_vars

\* ----------------------------------------------------------------- claims
IdxOf(rows) == {rows[i].idx : i \in 1..Len(rows)}

Range(rows) == {rows[i] : i \in 1..Len(rows)}

RECURSIVE RowsIn(_)
RowsIn(files) ==
    IF files = <<>> THEN 0 ELSE Len(Head(files).rows) + RowsIn(Tail(files))

\* C1: coercion yields one coerced row per raw row, and the valid rows and
\* the quarantined rows are disjoint and together are every row:
\* |valid| + |invalid| = |coerced| = |raw|.
C1_Partition ==
    pc = "dedupe" =>
        /\ Len(raw_df) = RowsIn(Glob(DATA))
        /\ Len(df) = Len(raw_df)
        /\ \A i \in 1..Len(df) : df[i].idx = raw_df[i].idx
        /\ Cardinality(IdxOf(df)) = Len(df)
        /\ Len(clean) + Len(quarantine) = Len(df)
        /\ IdxOf(clean) \cap IdxOf(quarantine) = {}
        /\ IdxOf(clean) \cup IdxOf(quarantine) = IdxOf(df)
        /\ Range(clean) \cup Range(quarantine) = Range(df)

C1_Witness == pc = "dedupe" /\ clean # <<>> /\ quarantine # <<>>

\* The conditions of validity, as the claim C2 lists them.
C2_Conds(r) ==
    /\ r.fecha # NA
    /\ r.unidades # NA /\ r.unidades.v >= 0
    /\ r.precio_unitario # NA /\ r.precio_unitario.v >= 0
    /\ r.id_cliente \notin {NaN, <<>>}
    /\ r.id_producto \notin {NaN, <<>>}

C2_Rejected(r) ==
    \/ r.unidades = <<"-", "1">>
    \/ r.precio_unitario = <<"d", "o", "c", "e">>

\* C2: a coerced row is valid iff its date is non-null, its quantity and its
\* price are non-null and >= 0 and both ids are non-null and non-empty; every
\* other row (quantity -1, price "doce") is quarantined and is neither in the
\* clean set nor in the Parquet file the run writes.
C2_ValidIff ==
    /\ pc = "dedupe" =>
          \A i \in 1..Len(df) :
              /\ C2_Conds(df[i]) <=> df[i].idx \in IdxOf(clean)
              /\ ~C2_Conds(df[i]) <=> df[i].idx \in IdxOf(quarantine)
    /\ pc \in {"persist", "schema"} =>
          \A i \in 1..Len(df) :
              ~C2_Conds(df[i]) =>
                  /\ df[i].idx \notin IdxOf(clean)
                  /\ df[i].idx \in IdxOf(quarantine)
    /\ pc \in {"dedupe", "persist", "schema"} =>
          \A i \in 1..Len(raw_df) :
              C2_Rejected(raw_df[i]) =>
                  /\ raw_df[i].idx \notin IdxOf(clean)
                  /\ raw_df[i].idx \in IdxOf(quarantine)
    /\ pc = "schema" =>
          /\ "parquet" \in wrote =>
                /\ parquet.rows = ToFile(clean)
                /\ \A j \in 1..Len(parquet.rows) : C2_Conds(parquet.rows[j])
          /\ quality_csv.rows = ToFile(quarantine)
          /\ \A j \in 1..Len(quality_csv.rows) : ~C2_Conds(quality_csv.rows[j])

C2_Witness ==
    /\ pc = "schema" /\ "parquet" \in wrote
    /\ \E i \in 1..Len(raw_df) : C2_Rejected(raw_df[i])

\* C3: for every natural key of the valid set, the clean set (and the Parquet
\* file written from it) holds exactly one row, the one with the greatest
\* ingest_ts and, among those, the latest in arrival order.
C3_LastWriteWins ==
    pc \in {"persist", "schema"} =>
        /\ \A i \in 1..Len(df) :
              C2_Conds(df[i]) =>
                  LET same == {j \in 1..Len(df) :
                                  C2_Conds(df[j]) /\ Key(df[j]) = Key(df[i])}
                      late == {j \in same :
                                  \A j2 \in same :
                                      df[j2].ingest_ts <= df[j].ingest_ts}
                      last == CHOOSE j \in late : \A j2 \in late : j2 <= j
                      got  == {c \in 1..Len(clean) : Key(clean[c]) = Key(df[i])}
                  IN  /\ Cardinality(got) = 1
                      /\ \A c \in got : clean[c].idx = df[last].idx
        /\ pc = "schema" /\ clean # <<>> => parquet.rows = ToFile(clean)

\* The row of clean_ventas that holds the values of the clean row r.
DbRow(r) ==
    [fecha |-> DateStr(r.fecha.v), id_cliente |-> r.id_cliente,
     id_producto |-> r.id_producto, unidades |-> r.unidades.v,
     precio_unitario |-> r.precio_unitario.v, ingest_ts |-> r.ingest_ts]

SameDbKey(a, b) ==
    a.fecha = b.fecha /\ a.id_cliente = b.id_cliente
        /\ a.id_producto = b.id_producto

UniqueKeys(table) == \A a, b \in table : SameDbKey(a, b) => a = b

\* C4: upserting a clean row leaves exactly one row for its key in
\* clean_ventas, holding the values of the latest write, also when an earlier
\* run upserted the same key; clean_ventas never holds two rows of one key.
C4_UpsertIdempotent ==
    /\ UniqueKeys(clean_ventas)
    /\ UniqueKeys(con.tx)
    /\ pc = "upsert" =>
          \A i \in 1..k :
              {x \in con.tx : SameDbKey(x, DbRow(clean[i]))} = {DbRow(clean[i])}
    /\ pc \in {"views", "reporte", "done"} =>
          \A i \in 1..Len(clean) :
              {x \in clean_ventas : SameDbKey(x, DbRow(clean[i]))}
                  = {DbRow(clean[i])}

C4_Witness ==
    /\ pc = "views" /\ runs = 2 /\ Len(rendered) = 1
    /\ \E i \in 1..Len(clean) :
          /\ DbRow(clean[i]) \in clean_ventas
          /\ \E j \in 1..Len(rendered[1].store) :
                /\ Key(rendered[1].store[j]) = Key(clean[i])
                /\ rendered[1].store[j].unidades # clean[i].unidades

\* C5: a run whose input yields no clean rows renders a report with zero
\* revenue, zero transactions, a zero average ticket and the "no data"
\* placeholders, whatever earlier runs left in the output directory.
C5_EmptyRunEmptyReport ==
    pc = "done" /\ clean = <<>> =>
        /\ reporte_md.text.ingresos = 0
        /\ reporte_md.text.trans = 0
        /\ reporte_md.text.ticket = 0
        /\ reporte_md.text.top.sin_datos
        /\ reporte_md.text.by_day.sin_datos

SameCounts(a, b) ==
    /\ a.bronce = b.bronce
    /\ a.plata = b.plata
    /\ a.cuarentena = b.cuarentena

\* C6 as claimed: two reports rendered from the same Parquet contents at the
\* same render timestamp have the same text.
C6_ReportOfStoreAndTime ==
    \A a, b \in 1..Len(rendered) :
        /\ rendered[a].store = rendered[b].store
        /\ rendered[a].text.generado = rendered[b].text.generado
        => rendered[a].text = rendered[b].text

\* C6 as amended: two reports rendered from the same Parquet contents at the
\* same render timestamp, by runs with the same bronze, silver and quarantine
\* row counts, have the same text.
C6_ReportOfStoreTimeAndCounts ==
    \A a, b \in 1..Len(rendered) :
        /\ rendered[a].store = rendered[b].store
        /\ rendered[a].text.generado = rendered[b].text.generado
        /\ SameCounts(rendered[a].text, rendered[b].text)
        => rendered[a].text = rendered[b].text

C6_Witness ==
    /\ Len(rendered) = 2
    /\ rendered[1].store # <<>>
    /\ rendered[1].store = rendered[2].store
    /\ rendered[1].text.generado = rendered[2].text.generado
    /\ SameCounts(rendered[1].text, rendered[2].text)
    /\ rendered[1].text.bronce > rendered[1].text.plata

\* C7: within one run every raw row carries the same ingest_ts, whatever
\* file it came from.
C7_OneIngestTs ==
    \A i, j \in 1..Len(raw_df) : raw_df[i].ingest_ts = raw_df[j].ingest_ts

RECURSIVE SumPct(_)
SumPct(top) == IF top = <<>> THEN 0 ELSE Head(top).pct + SumPct(Tail(top))

\* C8 as claimed: when total revenue is not zero, the percentage shares of
\* the product ranking sum to a value between 99 and 101.
C8_SharesSumTo100 ==
    pc = "done" /\ SumImporte(CleanRep) # 0 =>
        SumPct(reporte_md.text.top.filas) \in 99..101

\* C8 as amended: when total revenue is not zero, the shares of a ranking of
\* n products sum to a value within n/2 of 100, hence between 99 and 101
\* when the ranking has at most three products.
C8_SharesWithinHalfPerProduct ==
    pc = "done" /\ SumImporte(CleanRep) # 0 =>
        LET n == Len(reporte_md.text.top.filas)
            total == SumPct(reporte_md.text.top.filas)
        IN  /\ 2 * (total - 100) <= n
            /\ 2 * (100 - total) <= n
            /\ n <= 3 => total \in 99..101

C8_Witness ==
    /\ pc = "done" /\ SumImporte(CleanRep) # 0
    /\ Len(reporte_md.text.top.filas) = 4
    /\ SumPct(reporte_md.text.top.filas) = 98

\* C9: a run that ends without a failed statement has written the report; a
\* run in which a statement against the database failed ends there, without
\* having written the report, and what it wrote before (quarantine CSV,
\* Parquet, committed rows) stays.
C9_ReportOrAbort ==
    /\ pc = "done" => err = "" /\ "reporte" \in wrote /\ reporte_md.exists
    /\ err # "" => pc = "aborted"
    /\ pc = "aborted" =>
          /\ err \in {"schema", "raw", "upsert", "commit", "views"}
          /\ "reporte" \notin wrote
          /\ quality_csv = [exists |-> TRUE, rows |-> ToFile(quarantine)]
          /\ clean # <<>> => parquet = [exists |-> TRUE, rows |-> ToFile(clean)]
          /\ err \in {"upsert", "commit", "views"} =>
                SubSeq(raw_ventas, Len(raw_ventas) - Len(df) + 1,
                       Len(raw_ventas)) = RawRows(df)
          /\ err = "views" =>
                \A i \in 1..Len(clean) : DbRow(clean[i]) \in clean_ventas

C9_Witness ==
    /\ pc = "aborted" /\ err = "views" /\ clean # <<>>
    /\ runs = 2 /\ reporte_md.exists
    /\ reporte_md.text.plata # Len(clean)

\* C10: the sqlite3 connection is closed on every path out of the
\* persistence, the failing ones included: it is not open when the report
\* begins nor when the run ends.
C10_ConnectionReleased ==
    pc \in {"reporte", "done", "aborted"} => ~con.open

=============================================================================
